---- MODULE Spec2Model ----
(***************************************************************************)
(* Model of the interactive Mandelbrot shell (src/mandelbrotUI.py) and of  *)
(* the colour mapping shared with the batch driver                         *)
(* (src/mandelbrot_case.py).                                               *)
(*                                                                         *)
(* Python floats are binary floating point numbers: every arithmetic       *)
(* operation rounds its exact result to the nearest representable value    *)
(* (ties to even).  The model keeps that semantics with a mantissa of Prec *)
(* bits instead of 53 and an unbounded exponent: a float is a record       *)
(* [m |-> mantissa, e |-> exponent] of value m * 2^e, with                 *)
(* 2^(Prec-1) <= |m| < 2^Prec, or m = 0 and e = 0.                         *)
(***************************************************************************)
EXTENDS Integers, Sequences, FiniteSets, TLC

\* ------------------------------------------------------------------ bounds
\* Mantissa width of the model's floating point numbers.
Prec == 10
\* renderizar is invoked at most MaxRenders times in a behaviour.
MaxRenders == 3
\* Largest iteration count and budget given to colorir.
MaxCount == 10

\* ------------------------------------------------- binary floating point
RECURSIVE Pow2(_)
Pow2(k) == IF k <= 0 THEN 1 ELSE 2 * Pow2(k - 1)

Abs(i) == IF i < 0 THEN -i ELSE i

Sgn(i) == IF i < 0 THEN -1 ELSE 1

\* Number of binary digits of n >= 0.
RECURSIVE BitLen(_)
BitLen(n) == IF n = 0 THEN 0 ELSE 1 + BitLen(n \div 2)

FZero == [m |-> 0, e |-> 0]

\* q, the first Prec bits of a, with r the k bits cut off: to nearest, ties
\* to even.  A carry out of the mantissa moves to the next exponent.
RoundCut(s, q, r, k, e) ==
    LET half == Pow2(k - 1)
        up   == r > half \/ (r = half /\ q % 2 = 1)
        q1   == IF up THEN q + 1 ELSE q
    IN  IF q1 = Pow2(Prec)
        THEN [m |-> s * Pow2(Prec - 1), e |-> e + k + 1]
        ELSE [m |-> s * q1, e |-> e + k]

\* The float nearest to the number n * 2^e.
Norm(n, e) ==
    IF n = 0 THEN FZero
    ELSE LET a == Abs(n)
             l == BitLen(a)
         IN  IF l <= Prec
             THEN [m |-> n * Pow2(Prec - l), e |-> e - (Prec - l)]
             ELSE RoundCut(Sgn(n), a \div Pow2(l - Prec), a % Pow2(l - Prec),
                           l - Prec, e)

FromInt(i) == Norm(i, 0)

FNeg(a) == [m |-> -a.m, e |-> a.e]

\* a + b.  An operand below a quarter of the other's last place cannot
\* change the rounded sum.
FAdd(a, b) ==
    IF a.m = 0 THEN b
    ELSE IF b.m = 0 THEN a
    ELSE IF a.e - b.e > Prec + 2 THEN a
    ELSE IF b.e - a.e > Prec + 2 THEN b
    ELSE LET e == IF a.e < b.e THEN a.e ELSE b.e
         IN  Norm(a.m * Pow2(a.e - e) + b.m * Pow2(b.e - e), e)

FSub(a, b) == FAdd(a, FNeg(b))

FMul(a, b) == Norm(a.m * b.m, a.e + b.e)

\* a / b for b # 0: Prec + 2 quotient bits and a sticky bit for the rest.
FDiv(a, b) ==
    IF a.m = 0 THEN FZero
    ELSE LET n == Abs(a.m) * Pow2(Prec + 2)
             d == Abs(b.m)
             q == n \div d
             st == IF n % d = 0 THEN 0 ELSE 1
         IN  Norm(Sgn(a.m) * Sgn(b.m) * (2 * q + st), a.e - b.e - Prec - 3)

\* The difference of two distinct floats never rounds to zero.
FLt(a, b) == FSub(a, b).m < 0

FLe(a, b) == FSub(a, b).m <= 0

\* The integer part of a float (towards zero).
FTrunc(a) ==
    IF a.e >= 0 THEN a.m * Pow2(a.e)
    ELSE Sgn(a.m) * (Abs(a.m) \div Pow2(-a.e))

\* ------------------------------------------------------ program constants
\* Canvas (raster) size in pixels.
W == 700

H == 500

\* Selections smaller than this many pixels on an axis are ignored.
MinSel == 5

\* A float literal is the float nearest to the decimal it spells.
Lit(num, den) == FDiv(FromInt(num), FromInt(den))

\* minReal, maxReal, minImag, maxImag
Bounds_Default == <<Lit(-25, 10), Lit(10, 10), Lit(-12, 10), Lit(12, 10)>>

\* The text the iteration control is created with.
IterDefault == <<"2", "5", "6">>

None == <<>>

NoRect == "None"

RectId == "rect"

\* --------------------------------------------------------------- inputs
\* Pointer positions of the mouse events.  The pointer is grabbed while the
\* button is held, so motion and release events also report positions
\* outside the canvas; a press is always inside it.
Pts == {<<100, 100>>, <<105, 105>>, <<103, 300>>, <<350, 103>>,
        <<-20, 300>>, <<700, 500>>}

PressPts == {p \in Pts : 0 <= p[1] /\ p[1] < W /\ 0 <= p[2] /\ p[2] < H}

DragPts == {<<-20, 300>>}

\* Texts typed into the iteration control (an editable entry).
IterTexts == {<<"6", "4">>, <<"0">>, <<"a">>}

Digits == {"0", "1", "2", "3", "4", "5", "6", "7", "8", "9"}

DigitVal(c) ==
    CASE c = "0" -> 0 [] c = "1" -> 1 [] c = "2" -> 2 [] c = "3" -> 3
      [] c = "4" -> 4 [] c = "5" -> 5 [] c = "6" -> 6 [] c = "7" -> 7
      [] c = "8" -> 8 [] c = "9" -> 9

VARIABLES
    bounds,      \* self.bounds: <<minReal, maxReal, minImag, maxImag>>
    iter_var,    \* the text held by the iteration control
    sel_start,   \* self._sel_start: None or the press point
    sel_rect,    \* self._sel_rect: NoRect or the id of the dashed rectangle
    canvas_rect, \* the dashed rectangle item on the canvas: None or its coords
    photo,       \* self._photo: the image on the canvas, by what produced it
    status,      \* the status bar: None or <<bounds, max_iter>> as displayed
    backend,     \* arguments of the last calculate_mandelbrot call
    renders,     \* number of renderizar invocations so far
    last,        \* the event handled last: its handler, and for a release
                 \* the anchor it found (p0) and the release point (p1)
    c_iters,     \* colorir: the iteration counts (flattened matrix)
    c_max,       \* colorir: max_iter
    c_rgb        \* colorir: the pixels returned, None before the call

ui_vars == <<bounds, iter_var, sel_start, sel_rect, canvas_rect, photo,
             status, backend, renders, last>>

color_vars == <<c_iters, c_max, c_rgb>>

vars == <<bounds, iter_var, sel_start, sel_rect, canvas_rect, photo,
          status, backend, renders, last, c_iters, c_max, c_rgb>>

\* ---------------------------------------------------------------- colorir
\* ln(k) * 2^16 for k = 1 .. 20, to the nearest integer.
LnTable == <<0, 45426, 71999, 90852, 105476,
             117425, 127527, 136278, 143997, 150902,
             157148, 162851, 168097, 172953, 177475,
             181704, 185677, 189423, 192967, 196328>>

\* np.log1p(n) for an integer n >= 0.
Log1p(n) == Norm(LnTable[n + 1], -16)

FOne == FromInt(1)

\* np.clip(t, 0.0, 1.0)
Clip(t) == IF FLt(t, FZero) THEN FZero ELSE IF FLt(FOne, t) THEN FOne ELSE t

\* t = np.clip(np.log1p(iters) / np.log1p(max_iter), 0.0, 1.0)
Intensity(n, max_iter) == Clip(FDiv(Log1p(n), Log1p(max_iter)))

\* Mutant of AsUint8: the conversion rounds to the nearest integer.
AsUint8_Rounding(v) == FTrunc(FAdd(v, Norm(1, -1))) % 256

\* .astype(np.uint8): the fraction is dropped and the integer kept mod 2^8.
AsUint8(v) == FTrunc(v) % 256

\* Mutant of Inside: an entry equal to the budget is not inside.
Inside_Strict(n, max_iter) == n > max_iter

\* inside = iters >= max_iter
Inside(n, max_iter) == n >= max_iter

Pixel(n, max_iter) ==
    LET t == Intensity(n, max_iter)
        r == AsUint8(FMul(t, FromInt(100)))
        g == AsUint8(FMul(t, FromInt(180)))
        b == AsUint8(FMul(t, FromInt(255)))
    IN  IF Inside(n, max_iter) THEN <<0, 0, 0>> ELSE <<r, g, b>>

colorir(iters, max_iter) == [i \in 1..Len(iters) |-> Pixel(iters[i], max_iter)]

\* ------------------------------------------------------ iteration control
\* tk.IntVar.get(): the text as an integer; it raises TclError when the text
\* is not one.
IsDigits(t) == Len(t) > 0 /\ \A i \in 1..Len(t) : t[i] \in Digits

IntVarOk(t) ==
    \/ IsDigits(t)
    \/ Len(t) > 1 /\ t[1] = "-" /\ IsDigits(Tail(t))

RECURSIVE DigitsValue(_)
DigitsValue(t) ==
    IF Len(t) = 0 THEN 0
    ELSE 10 * DigitsValue(SubSeq(t, 1, Len(t) - 1)) + DigitVal(t[Len(t)])

IntVarGet(t) == IF t[1] = "-" THEN -DigitsValue(Tail(t)) ELSE DigitsValue(t)

\* ----------------------------------------------------------------- App
\* App._px with self.bounds = b
px(b, x, y) ==
    <<FAdd(b[1], FMul(FDiv(FromInt(x), FromInt(W)), FSub(b[2], b[1]))),
      FAdd(b[3], FMul(FDiv(FromInt(y), FromInt(H)), FSub(b[4], b[3])))>>

\* Mutant of TooSmall: only a selection small on both axes is ignored.
TooSmall_BothAxes(x0, y0, x1, y1) ==
    Abs(x1 - x0) < MinSel /\ Abs(y1 - y0) < MinSel

\* The selection is too small to zoom on.
TooSmall(x0, y0, x1, y1) == Abs(x1 - x0) < MinSel \/ Abs(y1 - y0) < MinSel

\* Mutant of ZoomBounds: the corners are not put in order.
ZoomBounds_NoSwap(b, x0, y0, x1, y1) ==
    <<px(b, x0, y0)[1], px(b, x1, y1)[1], px(b, x0, y0)[2], px(b, x1, y1)[2]>>

\* Lines 207-217 of App._on_release: the bounds installed for the press
\* point (x0, y0) and the release point (x1, y1).
ZoomBounds(b, x0, y0, x1, y1) ==
    LET xa == IF x0 > x1 THEN x1 ELSE x0
        xb == IF x0 > x1 THEN x0 ELSE x1
        ya == IF y0 > y1 THEN y1 ELSE y0
        yb == IF y0 > y1 THEN y0 ELSE y1
        c0 == px(b, xa, ya)
        c1 == px(b, xb, yb)
    IN  <<c0[1], c1[1], c0[2], c1[2]>>

\* App.renderizar with self.bounds = b and the dashed rectangle item cr.
\* IntVar.get() raising ends the handler before anything else is done.
renderizar(b, cr) ==
    /\ renders' = renders + 1
    /\ IF IntVarOk(iter_var)
       THEN LET max_iter == IntVarGet(iter_var)
            IN  /\ backend' = [width |-> W, height |-> H, bounds |-> b,
                               max_iter |-> max_iter]
                /\ photo' = [bounds |-> b, computed |-> max_iter,
                             colored |-> max_iter]
                /\ canvas_rect' = None
                /\ status' = <<b, max_iter>>
       ELSE /\ canvas_rect' = cr
            /\ UNCHANGED <<backend, photo, status>>

\* The "Renderizar" button.
Renderizar ==
    /\ renders < MaxRenders
    /\ renderizar(bounds, canvas_rect)
    /\ last' = [op |-> "renderizar", p0 |-> None, p1 |-> None]
    /\ UNCHANGED <<bounds, iter_var, sel_start, sel_rect>>

\* App.resetar
resetar ==
    /\ renders < MaxRenders
    /\ bounds' = Bounds_Default
    /\ renderizar(Bounds_Default, canvas_rect)
    /\ last' = [op |-> "resetar", p0 |-> None, p1 |-> None]
    /\ UNCHANGED <<iter_var, sel_start, sel_rect>>

\* App._on_press
on_press(p) ==
    /\ sel_start' = p
    /\ sel_rect' = RectId
    /\ canvas_rect' = <<p[1], p[2], p[1], p[2]>>
    /\ last' = [op |-> "press", p0 |-> p, p1 |-> None]
    /\ UNCHANGED <<bounds, iter_var, photo, status, backend, renders>>

\* App._on_drag; canvas.coords on an id whose item is gone does nothing.
on_drag(p) ==
    /\ canvas_rect' =
          IF sel_start # None /\ sel_rect # NoRect /\ canvas_rect # None
          THEN <<sel_start[1], sel_start[2], p[1], p[2]>>
          ELSE canvas_rect
    /\ last' = [op |-> "drag", p0 |-> None, p1 |-> None]
    /\ UNCHANGED <<bounds, iter_var, sel_start, sel_rect, photo, status,
                   backend, renders>>

\* Mutant of on_release: the size test comes first, so a discarded gesture
\* returns before the anchor and the overlay are cleared.
on_release_EarlyReturn(p) ==
    IF sel_start = None
    THEN /\ last' = [op |-> "release", p0 |-> None, p1 |-> None]
         /\ UNCHANGED <<bounds, iter_var, sel_start, sel_rect, canvas_rect,
                        photo, status, backend, renders>>
    ELSE IF TooSmall(sel_start[1], sel_start[2], p[1], p[2])
    THEN /\ last' = [op |-> "release", p0 |-> sel_start, p1 |-> p]
         /\ UNCHANGED <<bounds, iter_var, sel_start, sel_rect, canvas_rect,
                        photo, status, backend, renders>>
    ELSE /\ renders < MaxRenders
         /\ sel_start' = None
         /\ sel_rect' = NoRect
         /\ bounds' = ZoomBounds(bounds, sel_start[1], sel_start[2], p[1], p[2])
         /\ renderizar(ZoomBounds(bounds, sel_start[1], sel_start[2], p[1],
                                  p[2]), None)
         /\ last' = [op |-> "release", p0 |-> sel_start, p1 |-> p]
         /\ UNCHANGED iter_var

\* App._on_release
on_release(p) ==
    IF sel_start = None
    THEN /\ last' = [op |-> "release", p0 |-> None, p1 |-> None]
         /\ UNCHANGED <<bounds, iter_var, sel_start, sel_rect, canvas_rect,
                        photo, status, backend, renders>>
    ELSE LET x0 == sel_start[1]
             y0 == sel_start[2]
             cr == IF sel_rect # NoRect THEN None ELSE canvas_rect
         IN  /\ sel_start' = None
             /\ sel_rect' = NoRect
             /\ IF TooSmall(x0, y0, p[1], p[2])
                THEN /\ canvas_rect' = cr
                     /\ last' = [op |-> "release", p0 |-> sel_start, p1 |-> p]
                     /\ UNCHANGED <<bounds, iter_var, photo, status, backend,
                                    renders>>
                ELSE /\ renders < MaxRenders
                     /\ bounds' = ZoomBounds(bounds, x0, y0, p[1], p[2])
                     /\ renderizar(ZoomBounds(bounds, x0, y0, p[1], p[2]), cr)
                     /\ last' = [op |-> "release", p0 |-> sel_start, p1 |-> p]
                     /\ UNCHANGED iter_var

\* The user replaces the text of the iteration control.
EditIter(t) ==
    /\ iter_var' = t
    /\ last' = [op |-> "edit", p0 |-> None, p1 |-> None]
    /\ UNCHANGED <<bounds, sel_start, sel_rect, canvas_rect, photo, status,
                   backend, renders>>

Press == (\E p \in PressPts : on_press(p)) /\ UNCHANGED color_vars

Drag == (\E p \in DragPts : on_drag(p)) /\ UNCHANGED color_vars

Release == (\E p \in Pts : on_release(p)) /\ UNCHANGED color_vars

ClickRenderizar == Renderizar /\ UNCHANGED color_vars

ClickResetar == resetar /\ UNCHANGED color_vars

Edit == (\E t \in IterTexts : EditIter(t)) /\ UNCHANGED color_vars

\* App.__init__: the state once the window is built and the first render,
\* with the control at 256, is done.
UIInit ==
    /\ bounds = Bounds_Default
    /\ iter_var = IterDefault
    /\ sel_start = None
    /\ sel_rect = NoRect
    /\ canvas_rect = None
    /\ photo = [bounds |-> Bounds_Default,
                computed |-> IntVarGet(IterDefault),
                colored |-> IntVarGet(IterDefault)]
    /\ status = <<Bounds_Default, IntVarGet(IterDefault)>>
    /\ backend = [width |-> W, height |-> H, bounds |-> Bounds_Default,
                  max_iter |-> IntVarGet(IterDefault)]
    /\ renders = 1
    /\ last = [op |-> "init", p0 |-> None, p1 |-> None]

ColorIdle == c_iters = <<0>> /\ c_max = 1 /\ c_rgb = None

Init == UIInit /\ ColorIdle

Next ==
    \/ Press
    \/ Drag
    \/ Release
    \/ ClickRenderizar
    \/ ClickResetar
    \/ Edit

Spec == Init /\ [][Next]_vars

\* ------------------------------------------------ colorir on its own
\* Iteration matrices of one or two entries; an entry may exceed max_iter.
Counts == 0..(MaxCount + 2)

ColorInit ==
    /\ UIInit
    /\ c_iters \in {<<n>> : n \in Counts} \cup
                   {<<n, k>> : n \in Counts, k \in {1, MaxCount}}
    /\ c_max \in 1..MaxCount
    /\ c_rgb = None

Colorir ==
    /\ c_rgb = None
    /\ c_rgb' = colorir(c_iters, c_max)
    /\ UNCHANGED <<c_iters, c_max>>
    /\ UNCHANGED ui_vars

ColorNext == Colorir

SpecColor == ColorInit /\ [][ColorNext]_vars

\* ------------------------------------------------------------- the claims
\* The step handles a release that found an anchor; the gesture is then
\* last'.p0 (the anchor) to last'.p1 (the release point).
ReleaseStep == sel_start # None /\ last'.op = "release" /\ last'.p0 = sel_start

\* A state right after a release that found an anchor.
AfterRelease == last.op = "release" /\ last.p0 # None

Small(g) ==
    \/ Abs(g.p1[1] - g.p0[1]) < 5
    \/ Abs(g.p1[2] - g.p0[2]) < 5

\* C1: a release less than 5 pixels from the press point on either axis
\* leaves all four bounds as they were and does not call renderizar.
C1_DegenerateDiscarded ==
    [][(ReleaseStep /\ Small(last'))
         => /\ bounds' = bounds
            /\ renders' = renders
            /\ UNCHANGED <<photo, status, backend>>]_vars

\* A gesture 3 pixels wide and 200 pixels high has just been discarded.
C1_Witness ==
    /\ AfterRelease
    /\ Abs(last.p1[1] - last.p0[1]) < 5
    /\ Abs(last.p1[2] - last.p0[2]) >= 5
    /\ bounds = Bounds_Default
    /\ renders = 1

\* Rectangle n lies in rectangle o, is not empty and is not o itself.
StrictlyInside(n, o) ==
    /\ FLe(o[1], n[1]) /\ FLt(n[1], n[2]) /\ FLe(n[2], o[2])
    /\ FLe(o[3], n[3]) /\ FLt(n[3], n[4]) /\ FLe(n[4], o[4])
    /\ n # o

\* C2: the Viewport installed by a non-degenerate release is strictly
\* contained in the Viewport that was current before the release.
C2_StrictlyContained ==
    [][(ReleaseStep /\ ~Small(last')) => StrictlyInside(bounds', bounds)]_vars

Min(a, b) == IF a < b THEN a ELSE b

Max(a, b) == IF a < b THEN b ELSE a

\* lo + k / n * (hi - lo) in floating point.
Along(lo, hi, k, n) ==
    FAdd(lo, FMul(FDiv(FromInt(k), FromInt(n)), FSub(hi, lo)))

\* C3: the bounds installed by a non-degenerate release are
\* [mR + xa/W*(MR-mR), mR + xb/W*(MR-mR), mI + ya/H*(MI-mI),
\* mI + yb/H*(MI-mI)] with xa, xb, ya, yb the smaller and the larger
\* coordinates of the two endpoints and (mR, MR, mI, MI) the bounds before
\* the release: they depend on the unordered pair of endpoints only.
C3_UnorderedPair ==
    [][(ReleaseStep /\ ~Small(last'))
         => LET g  == last'
                xa == Min(g.p0[1], g.p1[1])
                xb == Max(g.p0[1], g.p1[1])
                ya == Min(g.p0[2], g.p1[2])
                yb == Max(g.p0[2], g.p1[2])
            IN  bounds' = <<Along(bounds[1], bounds[2], xa, 700),
                            Along(bounds[1], bounds[2], xb, 700),
                            Along(bounds[3], bounds[4], ya, 500),
                            Along(bounds[3], bounds[4], yb, 500)>>]_vars

\* A zoom whose drag went right to left and downwards has been applied.
C3_Witness ==
    /\ AfterRelease
    /\ ~Small(last)
    /\ last.p0[1] > last.p1[1]
    /\ last.p0[2] < last.p1[2]
    /\ bounds # Bounds_Default

\* C4: self.bounds always satisfies minReal < maxReal and minImag < maxImag.
C4_ProperRectangle ==
    FLt(bounds[1], bounds[2]) /\ FLt(bounds[3], bounds[4])

\* C5: every call of calculate_mandelbrot passes width >= 1, height >= 1,
\* minReal < maxReal, minImag < maxImag and an iteration budget >= 1.
C5_ValidBackendCall ==
    /\ backend.width >= 1
    /\ backend.height >= 1
    /\ FLt(backend.bounds[1], backend.bounds[2])
    /\ FLt(backend.bounds[3], backend.bounds[4])
    /\ backend.max_iter >= 1

\* C8: resetar sets the bounds to the default rectangle and runs one render
\* with it.
C8_ResetRenders ==
    [][(last'.op = "resetar")
         => /\ bounds' = Bounds_Default
            /\ renders' = renders + 1
            /\ photo'.bounds = Bounds_Default]_vars

\* C9: whenever the shell waits for input, the last completed render was
\* made with the current bounds and with one iteration budget for the
\* compute call and for colorir.
C9_RenderIsCurrent ==
    /\ photo.bounds = bounds
    /\ backend.bounds = bounds
    /\ photo.computed = photo.colored

\* C10: a press records the anchor and enters Selecting; drag motion neither
\* changes the bounds nor renders; a release leaves the controller Idle with
\* anchor and overlay cleared; a release in Idle changes nothing.
C10_ZoomController ==
    [][/\ (last'.op = "press")
            => /\ sel_start' = last'.p0
               /\ sel_start' # None
               /\ canvas_rect' # None
               /\ bounds' = bounds /\ renders' = renders
       /\ (last'.op = "drag")
            => /\ bounds' = bounds /\ renders' = renders
               /\ sel_start' = sel_start
               /\ UNCHANGED <<photo, status, backend>>
       /\ (last'.op = "release")
            => /\ sel_start' = None
               /\ sel_rect' = NoRect
               /\ canvas_rect' = None
       /\ (last'.op = "release" /\ sel_start = None)
            => UNCHANGED <<bounds, iter_var, sel_start, sel_rect,
                           canvas_rect, photo, status, backend, renders>>
      ]_vars

\* A gesture has been released and discarded: the controller is Idle again,
\* the overlay is gone and nothing was rendered.
C10_Witness ==
    /\ AfterRelease
    /\ Small(last)
    /\ sel_start = None
    /\ sel_rect = NoRect
    /\ canvas_rect = None
    /\ renders = 1

\* The three channels as colorir computes them from t, before the override.
Gradient(n, max_iter) ==
    LET t == Intensity(n, max_iter)
    IN  <<AsUint8(FMul(t, FromInt(100))), AsUint8(FMul(t, FromInt(180))),
          AsUint8(FMul(t, FromInt(255)))>>

\* C6: an entry n >= max_iter gives the pixel (0,0,0); an entry n < max_iter
\* gives the gradient value computed from t.
C6_BlackPoint ==
    c_rgb # None =>
        /\ Len(c_rgb) = Len(c_iters)
        /\ \A i \in 1..Len(c_iters) :
              IF c_iters[i] >= c_max
              THEN c_rgb[i] = <<0, 0, 0>>
              ELSE c_rgb[i] = Gradient(c_iters[i], c_max)

\* colorir has returned for a matrix with one entry above the budget and one
\* below it, the latter coloured.
C6_Witness ==
    /\ c_rgb # None
    /\ Len(c_iters) = 2
    /\ c_iters[1] > c_max
    /\ c_iters[2] < c_max
    /\ c_rgb[1] = <<0, 0, 0>>
    /\ c_rgb[2] # <<0, 0, 0>>

\* The largest integer k in 0..255 with k <= a, for a float 0 <= a < 256.
FloorOf(a) ==
    IF a.e >= 0 THEN a.m * Pow2(a.e)
    ELSE CHOOSE k \in 0..255 :
            k * Pow2(-a.e) <= a.m /\ a.m < (k + 1) * Pow2(-a.e)

\* The integer nearest to a float a >= 0 (halves go up).
RoundOf(a) ==
    IF a.e >= 0 THEN a.m * Pow2(a.e)
    ELSE (2 * a.m + Pow2(-a.e)) \div Pow2(1 - a.e)

Scaled(n, max_iter, k) == FMul(Intensity(n, max_iter), FromInt(k))

\* C7 as stated: for 0 <= n < max_iter the channels are 100*t, 180*t and
\* 255*t rounded to the nearest integer, each in 0..255.
C7_RoundedChannels ==
    c_rgb # None =>
        \A i \in 1..Len(c_iters) :
            c_iters[i] < c_max =>
                /\ c_rgb[i] = <<RoundOf(Scaled(c_iters[i], c_max, 100)),
                                RoundOf(Scaled(c_iters[i], c_max, 180)),
                                RoundOf(Scaled(c_iters[i], c_max, 255))>>
                /\ \A j \in 1..3 : c_rgb[i][j] \in 0..255

\* C7 amended: for 0 <= n < max_iter the channels are the products 100*t,
\* 180*t and 255*t with the fraction dropped, each in 0..255.
C7_TruncatedChannels ==
    c_rgb # None =>
        \A i \in 1..Len(c_iters) :
            c_iters[i] < c_max =>
                /\ c_rgb[i] = <<FloorOf(Scaled(c_iters[i], c_max, 100)),
                                FloorOf(Scaled(c_iters[i], c_max, 180)),
                                FloorOf(Scaled(c_iters[i], c_max, 255))>>
                /\ \A j \in 1..3 : c_rgb[i][j] \in 0..255

\* colorir has returned for n = 1 and max_iter = 3, where t = 1/2 and
\* 255*t = 127.5: the blue channel is 127.
C7_Witness ==
    /\ c_rgb # None
    /\ c_iters = <<1>>
    /\ c_max = 3
    /\ c_rgb = <<<<50, 90, 127>>>>
====
